---- MODULE Spec2Model ----
(***************************************************************************)
(* Model of ski_snow_weather_app_1_1.py: the JSON persistence of locations *)
(* and highlight settings (load_locations / save_locations), and the       *)
(* WeatherApp event handlers (show_forecast, add-location form,            *)
(* configuration form).                                                    *)
(*                                                                         *)
(* Values.  A Python value is a record [t, v]: t is the Python type        *)
(* ("dict", "list", "float", "int", "bool", "str"), v the payload.  A dict *)
(* is an insertion-ordered sequence of [k, v] items, as Python dicts are.  *)
(* A JSON value, as stored in the file, is a record [t, v] with t one of   *)
(* "object", "array", "real", "integer", "literal", "string": the decoder  *)
(* tells a number written with a fraction (float) from one written without *)
(* (int).  Numbers are counted in hundredths (1.0 is 100).                 *)
(***************************************************************************)
EXTENDS Integers, Sequences, FiniteSets, TLC

VARIABLES
    LOCATIONS_FILE,   \* content of locations.json: [kind, val]
    pc,               \* position of the process
    d1, d2,           \* store driver: results of the two load_locations() calls
    locations,        \* WeatherApp.locations (a Python dict)
    highlight_snow_enabled, highlight_rain_enabled,   \* BooleanVar: a boolean
    highlight_snow_over_cm, highlight_rain_over_mm,   \* DoubleVar: its Tcl text
    location_var,     \* Tk StringVar bound to the combobox
    combo_values,     \* location_combo["values"]
    output,           \* the Text widget: the inserted segments, in order
    add_windows,      \* open "Add location" Toplevels
    config_windows,   \* open "Configuration" Toplevels
    last              \* the callback that ran last and how it ended

vars == <<LOCATIONS_FILE, pc, d1, d2, locations,
          highlight_snow_enabled, highlight_snow_over_cm,
          highlight_rain_enabled, highlight_rain_over_mm,
          location_var, combo_values, output, add_windows, config_windows, last>>

(***************************************************************************)
(* Python and JSON values                                                  *)
(***************************************************************************)
PyDict(items) == [t |-> "dict", v |-> items]
PyList(elems) == [t |-> "list", v |-> elems]
PyFloat(n) == [t |-> "float", v |-> n]
PyInt(n) == [t |-> "int", v |-> n]
PyBool(b) == [t |-> "bool", v |-> b]
PyStr(s) == [t |-> "str", v |-> s]
Raise(exc) == [t |-> "raise", v |-> exc]
PyNone == [t |-> "none", v |-> "None"]
Item(k, val) == [k |-> k, v |-> val]

JObject(members) == [t |-> "object", v |-> members]
JArray(elems) == [t |-> "array", v |-> elems]
JReal(n) == [t |-> "real", v |-> n]
JInteger(n) == [t |-> "integer", v |-> n]
JLiteral(b) == [t |-> "literal", v |-> b]
JString(s) == [t |-> "string", v |-> s]

\* dict operations on the ordered item sequence
RECURSIVE ItemKeys(_)
ItemKeys(items) ==
    IF items = <<>> THEN <<>> ELSE <<Head(items).k>> \o ItemKeys(Tail(items))
\* list(d.keys())
Keys(d) == ItemKeys(d.v)
HasKey(d, k) == \E i \in 1..Len(d.v) : d.v[i].k = k
Get(d, k) == d.v[CHOOSE i \in 1..Len(d.v) : d.v[i].k = k].v
RECURSIVE PutItems(_, _, _)
PutItems(items, k, val) ==
    IF items = <<>> THEN <<Item(k, val)>>
    ELSE IF Head(items).k = k THEN <<Item(k, val)>> \o Tail(items)
    ELSE <<Head(items)>> \o PutItems(Tail(items), k, val)
\* d[k] = val : replace in place, or append a new key at the end
Put(d, k, val) == PyDict(PutItems(d.v, k, val))
\* d[k] = val where d.setdefault(k, val) was meant
SetDefaultOverwrites(d, k, val) == Put(d, k, val)

\* d.setdefault(k, val)
SetDefault(d, k, val) == IF HasKey(d, k) THEN d ELSE Put(d, k, val)

\* json.load: JSON text value -> Python value
RECURSIVE json_load(_)
RECURSIVE LoadMembers(_)
RECURSIVE LoadElems(_)
LoadMembers(s) ==
    IF s = <<>> THEN <<>>
    ELSE <<Item(Head(s).k, json_load(Head(s).v))>> \o LoadMembers(Tail(s))
LoadElems(s) ==
    IF s = <<>> THEN <<>> ELSE <<json_load(Head(s))>> \o LoadElems(Tail(s))
json_load(j) ==
    CASE j.t = "object" -> PyDict(LoadMembers(j.v))
      [] j.t = "array" -> PyList(LoadElems(j.v))
      [] j.t = "real" -> PyFloat(j.v)
      [] j.t = "integer" -> PyInt(j.v)
      [] j.t = "literal" -> PyBool(j.v)
      [] j.t = "string" -> PyStr(j.v)

\* json.dump: Python value -> JSON text value
RECURSIVE json_dump(_)
RECURSIVE DumpItems(_)
RECURSIVE DumpElems(_)
DumpItems(s) ==
    IF s = <<>> THEN <<>>
    ELSE <<Item(Head(s).k, json_dump(Head(s).v))>> \o DumpItems(Tail(s))
DumpElems(s) ==
    IF s = <<>> THEN <<>> ELSE <<json_dump(Head(s))>> \o DumpElems(Tail(s))
json_dump(p) ==
    CASE p.t = "dict" -> JObject(DumpItems(p.v))
      [] p.t = "list" -> JArray(DumpElems(p.v))
      [] p.t = "float" -> JReal(p.v)
      [] p.t = "int" -> JInteger(p.v)
      [] p.t = "bool" -> JLiteral(p.v)
      [] p.t = "str" -> JString(p.v)

\* the file system entry for LOCATIONS_FILE
Absent == [kind |-> "absent", val |-> JString("")]
NotJson == [kind |-> "garbage", val |-> JString("")]
Written(j) == [kind |-> "json", val |-> j]

(***************************************************************************)
(* Defaults (lines 24-35)                                                  *)
(***************************************************************************)
Coord(lat, lon) == PyDict(<<Item("lat", PyFloat(lat)), Item("lon", PyFloat(lon))>>)

DEFAULT_LOCATIONS ==
    PyDict(<<Item("Aspen Mountain", Coord(3916, -10682)),
             Item("Deer Valley", Coord(4062, -11149)),
             Item("Taos Ski Valley", Coord(3658, -10545))>>)

DEFAULT_SETTINGS ==
    PyDict(<<Item("highlight_snow_enabled", PyBool(TRUE)),
             Item("highlight_snow_over_cm", PyFloat(100)),
             Item("highlight_rain_enabled", PyBool(TRUE)),
             Item("highlight_rain_over_mm", PyFloat(100))>>)

SettingsKeys == {"highlight_snow_enabled", "highlight_snow_over_cm",
                 "highlight_rain_enabled", "highlight_rain_over_mm"}

(***************************************************************************)
(* Python builtins used by the loader and the forms                        *)
(***************************************************************************)
\* the texts that Python's float() / Tcl's getdouble parse, with their value
NumericText ==
    ("0.5" :> 50) @@ ("1.0" :> 100) @@ ("1" :> 100) @@ ("2.5" :> 250) @@
    ("3.0" :> 300) @@ ("40.0" :> 4000) @@ ("-105.5" :> -10550)

\* float(x)
float(x) ==
    CASE x.t = "float" -> x
      [] x.t = "int" -> PyFloat(x.v)
      [] x.t = "bool" -> PyFloat(IF x.v THEN 100 ELSE 0)
      [] x.t = "str" -> IF x.v \in DOMAIN NumericText
                        THEN PyFloat(NumericText[x.v]) ELSE Raise("ValueError")
      [] OTHER -> Raise("TypeError")

\* the strings of the model that have "locations" as a substring
HasLocationsSubstring(s) == s \in {"locations", "my locations"}

\* "locations" in data
In(k, data) ==
    CASE data.t = "dict" -> PyBool(HasKey(data, k))
      [] data.t = "list" -> PyBool(\E i \in 1..Len(data.v) : data.v[i] = PyStr(k))
      [] data.t = "str" -> PyBool(HasLocationsSubstring(data.v))
      [] OTHER -> Raise("TypeError")

\* isinstance(v, (list, tuple)) and len(v) == 2
IsPair(v) == v.t = "list" /\ Len(v.v) = 2

\* {"lat": float(v[0]), "lon": float(v[1])}
PairToDict(v) == PyDict(<<Item("lat", float(v.v[1])), Item("lon", float(v.v[2]))>>)

\* the conversion of item i raises (float() of a pair element fails)
PairRaises(v) == IsPair(v) /\ (float(v.v[1]).t = "raise" \/ float(v.v[2]).t = "raise")

RECURSIVE MigrateItems(_)
MigrateItems(items) ==
    IF items = <<>> THEN <<>>
    ELSE LET h == Head(items)
         IN  <<IF IsPair(h.v) THEN Item(h.k, PairToDict(h.v)) ELSE h>>
                 \o MigrateItems(Tail(items))

\* for k, v in list(d.items()): if <pair>: d[k] = {"lat": ..., "lon": ...}
\* the dict with every pair converted, or the first exception float() raises
MigratePairs(d) ==
    IF \E i \in 1..Len(d.v) : PairRaises(d.v[i].v)
    THEN LET i == CHOOSE n \in 1..Len(d.v) :
                      /\ PairRaises(d.v[n].v)
                      /\ \A m \in 1..(n - 1) : ~PairRaises(d.v[m].v)
             e == d.v[i].v
         IN  IF float(e.v[1]).t = "raise" THEN float(e.v[1]) ELSE float(e.v[2])
    ELSE PyDict(MigrateItems(d.v))

\* for k, v in DEFAULT_SETTINGS.items(): settings.setdefault(k, v)
RECURSIVE FillDefaults(_, _)
FillDefaults(settings, defaults) ==
    IF defaults = <<>> THEN settings
    ELSE FillDefaults(SetDefault(settings, Head(defaults).k, Head(defaults).v),
                      Tail(defaults))

(***************************************************************************)
(* load_locations (lines 38-72), save_locations (lines 75-78)              *)
(* The result of a load is [ret, file]: the returned document or the       *)
(* exception raised, and the content of the file afterwards.               *)
(***************************************************************************)
\* lines 39-43: no file
LoadAbsent ==
    LET data == PyDict(<<Item("locations", DEFAULT_LOCATIONS),
                         Item("settings", DEFAULT_SETTINGS)>>)
    IN  [ret |-> data, file |-> Written(json_dump(data))]

\* the legacy branch without its write-back
LoadLegacyNoWrite(f, data) ==
    IF data.t # "dict" THEN [ret |-> Raise("AttributeError"), file |-> f]
    ELSE LET locs == MigratePairs(data)
         IN  IF locs.t = "raise" THEN [ret |-> locs, file |-> f]
             ELSE [ret |-> PyDict(<<Item("locations", locs),
                                    Item("settings", DEFAULT_SETTINGS)>>),
                   file |-> f]

\* lines 50-59: no "locations" key, the whole document is taken as the locations
LoadLegacy(f, data) ==
    IF data.t # "dict" THEN [ret |-> Raise("AttributeError"), file |-> f]
    ELSE LET locs == MigratePairs(data)
         IN  IF locs.t = "raise" THEN [ret |-> locs, file |-> f]
             ELSE LET doc == PyDict(<<Item("locations", locs),
                                      Item("settings", DEFAULT_SETTINGS)>>)
                  IN  [ret |-> doc, file |-> Written(json_dump(doc))]

\* lines 66-70
EnsureSettings(data) ==
    LET d == IF ~HasKey(data, "settings") \/ Get(data, "settings").t # "dict"
             THEN Put(data, "settings", PyDict(<<>>)) ELSE data
    IN  Put(d, "settings", FillDefaults(Get(d, "settings"), DEFAULT_SETTINGS.v))

\* lines 61-72: a "locations" key is present
LoadCurrent(f, data) ==
    IF data.t # "dict" THEN [ret |-> Raise("TypeError"), file |-> f]
    ELSE IF Get(data, "locations").t # "dict"
    THEN [ret |-> Raise("AttributeError"), file |-> f]
    ELSE LET locs == MigratePairs(Get(data, "locations"))
         IN  IF locs.t = "raise" THEN [ret |-> locs, file |-> f]
             ELSE [ret |-> EnsureSettings(Put(data, "locations", locs)), file |-> f]

load_locations(f) ==
    IF f.kind = "absent" THEN LoadAbsent
    ELSE IF f.kind = "garbage" THEN [ret |-> Raise("JSONDecodeError"), file |-> f]
    ELSE LET data == json_load(f.val)
             has == In("locations", data)
         IN  IF has.t = "raise" THEN [ret |-> has, file |-> f]
             ELSE IF ~has.v THEN LoadLegacy(f, data)
             ELSE LoadCurrent(f, data)

\* an earlier revision's save: only the locations mapping is written
save_locations_only(doc) == Written(json_dump(Get(doc, "locations")))

save_locations(doc) == Written(json_dump(doc))

(***************************************************************************)
(* The backing files the checks start from                                 *)
(***************************************************************************)
JCoord(lat, lon) == JObject(<<Item("lat", JReal(lat)), Item("lon", JReal(lon))>>)

\* location mappings as found in a file: current entries, legacy [lat, lon]
\* pairs (reals or integers), a pair that is no coordinate, a 3-element list
FileLocations ==
    { <<>>,
      <<Item("Aspen Mountain", JCoord(3916, -10682))>>,
      <<Item("Aspen Mountain", JArray(<<JReal(3910), JReal(-10680)>>))>>,
      <<Item("Aspen Mountain", JCoord(3916, -10682)),
        Item("Deer Valley", JArray(<<JInteger(4000), JInteger(-11100)>>))>>,
      <<Item("Aspen Mountain", JArray(<<JString("n/a"), JReal(-10680)>>))>>,
      <<Item("Aspen Mountain", JArray(<<JReal(1), JReal(2), JReal(3)>>))>> }

\* the four settings with values that differ from the defaults
StoredSettings ==
    <<Item("highlight_snow_enabled", JLiteral(FALSE)),
      Item("highlight_snow_over_cm", JReal(250)),
      Item("highlight_rain_enabled", JLiteral(FALSE)),
      Item("highlight_rain_over_mm", JInteger(300))>>

RECURSIVE Restrict(_, _)
Restrict(items, keys) ==
    IF items = <<>> THEN <<>>
    ELSE (IF Head(items).k \in keys THEN <<Head(items)>> ELSE <<>>)
             \o Restrict(Tail(items), keys)

\* every subset of the settings keys present
FileSettings == { JObject(Restrict(StoredSettings, ks)) : ks \in SUBSET SettingsKeys }

CurrentShapeFiles ==
    { Written(JObject(<<Item("locations", JObject(l)), Item("settings", s)>>)) :
          l \in FileLocations, s \in FileSettings }
    \cup { Written(JObject(<<Item("locations", JObject(l))>>)) : l \in FileLocations }
    \cup { Written(JObject(<<Item("locations", JObject(l)),
                             Item("settings", JInteger(5))>>)) : l \in FileLocations }
    \cup { Written(JObject(<<Item("settings", JObject(StoredSettings)),
                             Item("locations", JObject(l))>>)) : l \in FileLocations }

LegacyFiles ==
    { Written(JObject(l)) : l \in FileLocations }
    \cup { Written(JObject(<<Item("settings", JObject(StoredSettings))>>)),
           Written(JObject(<<Item("Aspen Mountain", JArray(<<JReal(3910), JReal(-10680)>>)),
                             Item("settings", JObject(StoredSettings))>>)) }

CorruptFiles ==
    { NotJson,
      Written(JArray(<<>>)),
      Written(JArray(<<JString("locations")>>)),
      Written(JInteger(5)),
      Written(JString("locations")),
      Written(JString("Aspen Mountain")),
      Written(JObject(<<Item("locations", JArray(<<>>))>>)),
      Written(JObject(<<Item("locations", JInteger(5))>>)) }

StoreFiles == {Absent} \cup CurrentShapeFiles \cup LegacyFiles \cup CorruptFiles

(***************************************************************************)
(* The store on its own: load, save what was loaded, load again            *)
(***************************************************************************)
Event(op, result) == [op |-> op, result |-> result]
\* how a callback ended: it returned, it showed messagebox.showerror(msg) and
\* returned, or an exception left it
Returned == [kind |-> "returned", msg |-> ""]
ShowError(msg) == [kind |-> "showerror", msg |-> msg]
Uncaught(exc) == [kind |-> "exception", msg |-> exc]

\* no WeatherApp object exists (yet)
AppIdle ==
    /\ locations = PyNone
    /\ highlight_snow_enabled = FALSE /\ highlight_snow_over_cm = ""
    /\ highlight_rain_enabled = FALSE /\ highlight_rain_over_mm = ""
    /\ location_var = "" /\ combo_values = <<>> /\ output = <<>>
    /\ add_windows = 0 /\ config_windows = 0
    /\ last = Event("none", Returned)

appvars == <<locations, highlight_snow_enabled, highlight_snow_over_cm,
             highlight_rain_enabled, highlight_rain_over_mm,
             location_var, combo_values, output, add_windows, config_windows, last>>

StoreInit ==
    /\ LOCATIONS_FILE \in StoreFiles
    /\ pc = "start" /\ d1 = PyNone /\ d2 = PyNone
    /\ AppIdle

FirstLoad ==
    /\ pc = "start"
    /\ LET r == load_locations(LOCATIONS_FILE)
       IN  d1' = r.ret /\ LOCATIONS_FILE' = r.file
    /\ pc' = "loaded"
    /\ UNCHANGED <<d2, appvars>>

Save ==
    /\ pc = "loaded" /\ d1.t # "raise"
    /\ LOCATIONS_FILE' = save_locations(d1)
    /\ pc' = "saved"
    /\ UNCHANGED <<d1, d2, appvars>>

SecondLoad ==
    /\ pc = "saved"
    /\ LET r == load_locations(LOCATIONS_FILE)
       IN  d2' = r.ret /\ LOCATIONS_FILE' = r.file
    /\ pc' = "reloaded"
    /\ UNCHANGED <<d1, appvars>>

StoreNext == FirstLoad \/ Save \/ SecondLoad

StoreSpec == StoreInit /\ [][StoreNext]_vars

(***************************************************************************)
(* Claims about the store (checked under StoreSpec)                        *)
(***************************************************************************)
\* the step in which the first load_locations() call returns a document
FirstLoadReturns == pc = "start" /\ pc' = "loaded" /\ d1'.t # "raise"

IsJsonObject(f) == f.kind = "json" /\ f.val.t = "object"
\* the file has the current shape: an object with a "locations" member
IsCurrentShape(f) == IsJsonObject(f) /\ HasKey(f.val, "locations")
\* the file is an object without the "locations" wrapper
IsWrapperLess(f) == IsJsonObject(f) /\ ~HasKey(f.val, "locations")
\* the file stores settings key k
StoresSetting(f, k) ==
    /\ IsCurrentShape(f) /\ HasKey(f.val, "settings")
    /\ Get(f.val, "settings").t = "object"
    /\ HasKey(Get(f.val, "settings"), k)
IsJsonPair(j) == j.t = "array" /\ Len(j.v) = 2
IsJsonNumber(j) == j.t \in {"real", "integer"}
IsJsonCoordPair(j) == IsJsonPair(j) /\ IsJsonNumber(j.v[1]) /\ IsJsonNumber(j.v[2])
IsJsonLatLon(j) == j.t = "object" /\ HasKey(j, "lat") /\ HasKey(j, "lon")
\* a current-shape file in which some location is a [lat, lon] pair
HasPairLocation(f) ==
    /\ IsCurrentShape(f) /\ Get(f.val, "locations").t = "object"
    /\ \E i \in 1..Len(Get(f.val, "locations").v) :
           IsJsonPair(Get(f.val, "locations").v[i].v)

\* plocs (returned) is jlocs (stored) with every pair replaced by {lat, lon}
NormalizedFrom(jlocs, plocs) ==
    /\ plocs.t = "dict" /\ Len(plocs.v) = Len(jlocs.v)
    /\ \A i \in 1..Len(jlocs.v) :
           /\ plocs.v[i].k = jlocs.v[i].k
           /\ plocs.v[i].v =
                  IF IsJsonPair(jlocs.v[i].v)
                  THEN Coord(jlocs.v[i].v.v[1].v, jlocs.v[i].v.v[2].v)
                  ELSE json_load(jlocs.v[i].v)

SettingsComplete(f, doc) ==
    /\ doc.t = "dict" /\ HasKey(doc, "settings") /\ Get(doc, "settings").t = "dict"
    /\ \A k \in SettingsKeys :
           /\ HasKey(Get(doc, "settings"), k)
           /\ Get(Get(doc, "settings"), k) =
                  IF StoresSetting(f, k)
                  THEN json_load(Get(Get(f.val, "settings"), k))
                  ELSE Get(DEFAULT_SETTINGS, k)

\* C1: whenever load_locations() returns, the returned settings hold all four
\* keys; a key the file lacks (or any key of an absent or legacy file) has its
\* default, a key stored in a current-shape file keeps the stored value.
C1_SettingsFilledOnLoad ==
    [][FirstLoadReturns => SettingsComplete(LOCATIONS_FILE, d1')]_vars

\* C1 witness: a current-shape file without highlight_rain_over_mm was loaded:
\* that key is 1.0 and the stored snow threshold 2.5 is kept.
C1_Witness ==
    /\ pc = "loaded" /\ d1.t = "dict"
    /\ StoresSetting(LOCATIONS_FILE, "highlight_snow_over_cm")
    /\ ~StoresSetting(LOCATIONS_FILE, "highlight_rain_over_mm")
    /\ Get(Get(d1, "settings"), "highlight_rain_over_mm") = PyFloat(100)
    /\ Get(Get(d1, "settings"), "highlight_snow_over_cm") = PyFloat(250)

C3_LoadSaveLoad ==
    pc = "reloaded" => d2 = d1 /\ LOCATIONS_FILE = Written(json_dump(d1))

\* C3 witness: the round trip ended on a document whose stored settings differ
\* from the defaults (so it came from a current-shape file).
C3_Witness ==
    /\ pc = "reloaded" /\ d2.t = "dict"
    /\ Get(Get(d2, "settings"), "highlight_snow_over_cm") = PyFloat(250)
    /\ Get(Get(d2, "settings"), "highlight_rain_enabled") = PyBool(FALSE)

\* the file is not JSON, or not an object, or an object without "locations"
\* holding a value that is neither a coordinate pair nor a {lat, lon} object
IsCorrupt(f) ==
    \/ f.kind = "garbage"
    \/ f.kind = "json" /\ f.val.t # "object"
    \/ /\ IsWrapperLess(f)
       /\ \E i \in 1..Len(f.val.v) :
              ~IsJsonCoordPair(f.val.v[i].v) /\ ~IsJsonLatLon(f.val.v[i].v)

\* C7: a corrupt or unrecognizable file makes load_locations() raise and leaves
\* the file as it was.
C7_CorruptionIsFatal ==
    [][(pc = "start" /\ pc' = "loaded" /\ IsCorrupt(LOCATIONS_FILE))
         => d1'.t = "raise" /\ LOCATIONS_FILE' = LOCATIONS_FILE]_vars

(***************************************************************************)
(* WeatherApp (lines 127-334)                                              *)
(***************************************************************************)
MaxWindows == 1     \* Toplevels of one kind open at a time
NumDays == 1        \* rows of a forecast (forecast_days, 16 in the request)

\* the text Tk stores for DoubleVar(value=x)
FloatRepr == (50 :> "0.5") @@ (100 :> "1.0") @@ (250 :> "2.5") @@ (300 :> "3.0")
IntRepr == (100 :> "1")
TkText(x) == IF x.t = "int" THEN IntRepr[x.v] ELSE FloatRepr[x.v]

\* str.strip() on the names typed
Strip == ("  " :> "") @@ ("Test Peak" :> "Test Peak")
             @@ (" Aspen Mountain " :> "Aspen Mountain")

\* what the user types
NameTexts == DOMAIN Strip
LatTexts == {"40.0", "abc"}
LonTexts == {"-105.5", ""}
ThresholdTexts == {"1.0", "abc"}

\* what get_daily_forecast does: raises, or returns NumDays rows
\* a day's rain and snow: below, at and just above 1.0, in the four mixes
Rows == { [rain_mm |-> 101, snow_cm |-> 101], [rain_mm |-> 100, snow_cm |-> 100],
          [rain_mm |-> 101, snow_cm |-> 100], [rain_mm |-> 99, snow_cm |-> 101] }
RECURSIVE Frames(_)
Frames(n) == IF n = 0 THEN {<<>>} ELSE {<<r>> \o f : r \in Rows, f \in Frames(n - 1)}
FetchErrors == {"HTTP 500"}
Fetches == { [raised |-> m, df |-> <<>>] : m \in FetchErrors }
               \cup { [raised |-> "", df |-> f] : f \in Frames(NumDays) }

\* the files the application is started on
AppFiles ==
    { NotJson,
      Written(JObject(<<Item("locations", JObject(<<>>))>>)),
      Written(JObject(<<Item("locations", JObject(<<
                            Item("Aspen Mountain", JArray(<<JReal(3910), JReal(-10680)>>))>>)),
                        Item("settings", JObject(<<
                            Item("highlight_snow_enabled", JLiteral(FALSE))>>))>>)) }

Init ==
    /\ LOCATIONS_FILE \in AppFiles
    /\ pc = "start" /\ d1 = PyNone /\ d2 = PyNone
    /\ AppIdle

\* WeatherApp.__init__ (lines 128-145) with create_widgets (lines 148-182)
Startup ==
    /\ pc = "start"
    /\ LET r == load_locations(LOCATIONS_FILE)
           locs == Get(r.ret, "locations")
           settings == IF HasKey(r.ret, "settings") THEN Get(r.ret, "settings")
                       ELSE DEFAULT_SETTINGS
           setting(k) == IF HasKey(settings, k) THEN Get(settings, k)
                         ELSE Get(DEFAULT_SETTINGS, k)
       IN  /\ LOCATIONS_FILE' = r.file
           /\ IF r.ret.t = "raise"
              THEN /\ pc' = "crashed"
                   /\ last' = Event("__init__", Uncaught(r.ret.v))
                   /\ UNCHANGED <<locations, highlight_snow_enabled, highlight_rain_enabled,
                                  highlight_snow_over_cm, highlight_rain_over_mm,
                                  location_var, combo_values>>
              ELSE IF Len(locs.v) = 0
              THEN \* location_combo.current(0) on an empty list
                   /\ pc' = "crashed"
                   /\ last' = Event("__init__", Uncaught("TclError"))
                   /\ locations' = locs
                   /\ UNCHANGED <<highlight_snow_enabled, highlight_rain_enabled,
                                  highlight_snow_over_cm, highlight_rain_over_mm,
                                  location_var, combo_values>>
              ELSE /\ pc' = "mainloop"
                   /\ last' = Event("__init__", Returned)
                   /\ locations' = locs
                   /\ combo_values' = Keys(locs)
                   /\ location_var' = Keys(locs)[1]
                   /\ highlight_snow_enabled' = setting("highlight_snow_enabled").v
                   /\ highlight_snow_over_cm' = TkText(setting("highlight_snow_over_cm"))
                   /\ highlight_rain_enabled' = setting("highlight_rain_enabled").v
                   /\ highlight_rain_over_mm' = TkText(setting("highlight_rain_over_mm"))
    /\ UNCHANGED <<d1, d2, output, add_windows, config_windows>>

\* the user picks an entry of the read-only combobox
SelectLocation ==
    /\ pc = "mainloop"
    /\ \E i \in 1..Len(combo_values) : location_var' = combo_values[i]
    /\ last' = Event("other", Returned)
    /\ UNCHANGED <<LOCATIONS_FILE, pc, d1, d2, locations, highlight_snow_enabled,
                   highlight_rain_enabled, highlight_snow_over_cm, highlight_rain_over_mm,
                   combo_values, output, add_windows, config_windows>>

\* DoubleVar.get() raises TclError on a text that is no number
IsNumber(text) == text \in DOMAIN NumericText

\* persist_state (lines 184-194): the exception that leaves it, if any, and
\* the file after it
persist_state(locs) ==
    IF ~IsNumber(highlight_snow_over_cm) \/ ~IsNumber(highlight_rain_over_mm)
    THEN [exc |-> "TclError", file |-> LOCATIONS_FILE]
    ELSE [exc |-> "",
          file |-> save_locations(PyDict(<<
             Item("locations", locs),
             Item("settings", PyDict(<<
                 Item("highlight_snow_enabled", PyBool(highlight_snow_enabled)),
                 Item("highlight_snow_over_cm", PyFloat(NumericText[highlight_snow_over_cm])),
                 Item("highlight_rain_enabled", PyBool(highlight_rain_enabled)),
                 Item("highlight_rain_over_mm", PyFloat(NumericText[highlight_rain_over_mm]))>>))>>))]

(***************************************************************************)
(* show_forecast (lines 196-241)                                           *)
(***************************************************************************)
\* one output.insert(tk.END, text, tag): what the text shows, and its tag
Seg(part, name, val, tag) == [part |-> part, name |-> name, val |-> val, tag |-> tag]

\* f"{x:.1f}": hundredths rounded to tenths (the values used have no ties)
Fmt1(x) == (x + 5) \div 10

\* line 227, with >= where > was meant
RainHighInclusive(rain_mm) ==
    highlight_rain_enabled /\ rain_mm >= NumericText[highlight_rain_over_mm]

\* line 227: highlight_rain_enabled.get() and rain_mm > float(highlight_rain_over_mm.get())
RainHigh(rain_mm) ==
    highlight_rain_enabled /\ rain_mm > NumericText[highlight_rain_over_mm]

\* line 236
SnowHigh(snow_cm) ==
    highlight_snow_enabled /\ snow_cm > NumericText[highlight_snow_over_cm]

\* the .get() of line 227 / line 236 raises TclError
RainRaises == highlight_rain_enabled /\ ~IsNumber(highlight_rain_over_mm)
SnowRaises == highlight_snow_enabled /\ ~IsNumber(highlight_snow_over_cm)

\* lines 223-241 for row i: the segments inserted, up to the exception if any
RowSegments(row, i) ==
    <<Seg("date|min|max", "", i, "")>>
    \o (IF RainRaises THEN <<>>
        ELSE <<Seg("rain", "", Fmt1(row.rain_mm),
                   IF RainHigh(row.rain_mm) THEN "rain_highlight" ELSE ""),
               Seg("|", "", 0, "")>>
             \o (IF SnowRaises THEN <<>>
                 ELSE <<Seg("snow", "", Fmt1(row.snow_cm),
                            IF SnowHigh(row.snow_cm) THEN "snow_highlight" ELSE ""),
                        Seg("sun|code", "", i, "")>>))

\* lines 210-241: for _, row in df.iterrows()
RECURSIVE RenderFrom(_, _)
RenderFrom(df, i) ==
    IF i > Len(df) THEN <<>>
    ELSE RowSegments(df[i], i)
             \o (IF RainRaises \/ SnowRaises THEN <<>> ELSE RenderFrom(df, i + 1))

\* lines 206-208
Header(name) == <<Seg("Daily forecast for", "", 0, ""), Seg("-----", "", 0, "")>>

\* show_forecast that clears the text area before it fetches
show_forecast_clears_first(fetch) ==
    IF ~HasKey(locations, location_var)
    THEN [output |-> output, result |-> Uncaught("KeyError")]
    ELSE IF fetch.raised # "" THEN [output |-> <<>>, result |-> ShowError(fetch.raised)]
    ELSE [output |-> Header(location_var) \o RenderFrom(fetch.df, 1),
          result |-> IF fetch.df # <<>> /\ (RainRaises \/ SnowRaises)
                     THEN Uncaught("TclError") ELSE Returned]

\* show_forecast: the text area after it and how it ended, given what
\* get_daily_forecast does
show_forecast(fetch) ==
    IF ~HasKey(locations, location_var)
    THEN [output |-> output, result |-> Uncaught("KeyError")]
    ELSE LET loc == Get(locations, location_var)
         IN  IF loc.t # "dict" \/ ~HasKey(loc, "lat") \/ ~HasKey(loc, "lon")
             THEN \* loc["lat"] fails inside the try
                  [output |-> output, result |-> ShowError("'lat'")]
             ELSE IF fetch.raised # ""
             THEN [output |-> output, result |-> ShowError(fetch.raised)]
             ELSE [output |-> Header(location_var) \o RenderFrom(fetch.df, 1),
                   result |-> IF fetch.df # <<>> /\ (RainRaises \/ SnowRaises)
                              THEN Uncaught("TclError") ELSE Returned]

ShowForecast ==
    /\ pc = "mainloop"
    /\ \E fetch \in Fetches :
           LET r == show_forecast(fetch)
           IN  /\ output' = r.output
               /\ last' = Event("show_forecast", r.result)
    /\ UNCHANGED <<LOCATIONS_FILE, pc, d1, d2, locations, highlight_snow_enabled,
                   highlight_rain_enabled, highlight_snow_over_cm, highlight_rain_over_mm,
                   location_var, combo_values, add_windows, config_windows>>

(***************************************************************************)
(* add_location_window (lines 243-280)                                     *)
(***************************************************************************)
AddLocationWindow ==
    /\ pc = "mainloop" /\ add_windows < MaxWindows
    /\ add_windows' = add_windows + 1
    /\ last' = Event("other", Returned)
    /\ UNCHANGED <<LOCATIONS_FILE, pc, d1, d2, locations, highlight_snow_enabled,
                   highlight_rain_enabled, highlight_snow_over_cm, highlight_rain_over_mm,
                   location_var, combo_values, output, config_windows>>

\* the window manager's close button on an "Add location" window
CloseAddWindow ==
    /\ pc = "mainloop" /\ add_windows > 0
    /\ add_windows' = add_windows - 1
    /\ last' = Event("other", Returned)
    /\ UNCHANGED <<LOCATIONS_FILE, pc, d1, d2, locations, highlight_snow_enabled,
                   highlight_rain_enabled, highlight_snow_over_cm, highlight_rain_over_mm,
                   location_var, combo_values, output, config_windows>>

Unchanged(result) ==
    [locations |-> locations, file |-> LOCATIONS_FILE, combo_values |-> combo_values,
     location_var |-> location_var, add_windows |-> add_windows, result |-> result]

\* save_new_location that stores the entry before it checks the name
save_new_location_stores_first(name_text, lat_text, lon_text) ==
    LET name == Strip[name_text]
    IN  IF ~IsNumber(lat_text) \/ ~IsNumber(lon_text)
        THEN Unchanged(ShowError("Latitude and longitude must be numbers"))
        ELSE LET locs == Put(locations, name,
                             Coord(NumericText[lat_text], NumericText[lon_text]))
             IN  IF name = ""
                 THEN [Unchanged(ShowError("Location name required"))
                          EXCEPT !.locations = locs]
                 ELSE [locations |-> locs, file |-> persist_state(locs).file,
                       combo_values |-> Keys(locs), location_var |-> name,
                       add_windows |-> add_windows - 1, result |-> Returned]

\* save_new_location that rebuilds the mapping from the new entry alone
save_new_location_forgets(name_text, lat_text, lon_text) ==
    LET name == Strip[name_text]
    IN  IF ~IsNumber(lat_text) \/ ~IsNumber(lon_text)
        THEN Unchanged(ShowError("Latitude and longitude must be numbers"))
        ELSE IF name = "" THEN Unchanged(ShowError("Location name required"))
        ELSE LET locs == PyDict(<<Item(name, Coord(NumericText[lat_text],
                                                   NumericText[lon_text]))>>)
             IN  [locations |-> locs, file |-> persist_state(locs).file,
                  combo_values |-> Keys(locs), location_var |-> name,
                  add_windows |-> add_windows - 1, result |-> Returned]

\* save_new_location (lines 260-278): the state after it and how it ended
save_new_location(name_text, lat_text, lon_text) ==
    LET name == Strip[name_text]
    IN  IF ~IsNumber(lat_text) \/ ~IsNumber(lon_text)
        THEN Unchanged(ShowError("Latitude and longitude must be numbers"))
        ELSE IF name = "" THEN Unchanged(ShowError("Location name required"))
        ELSE LET locs == Put(locations, name,
                             Coord(NumericText[lat_text], NumericText[lon_text]))
                 saved == persist_state(locs)
             IN  IF saved.exc # ""
                 THEN \* line 274 raises: lines 276-278 are not reached
                      [Unchanged(Uncaught(saved.exc)) EXCEPT !.locations = locs]
                 ELSE [locations |-> locs, file |-> saved.file,
                       combo_values |-> Keys(locs), location_var |-> name,
                       add_windows |-> add_windows - 1, result |-> Returned]

SaveNewLocation ==
    /\ pc = "mainloop" /\ add_windows > 0
    /\ \E name_text \in NameTexts, lat_text \in LatTexts, lon_text \in LonTexts :
           LET r == save_new_location(name_text, lat_text, lon_text)
           IN  /\ locations' = r.locations
               /\ LOCATIONS_FILE' = r.file
               /\ combo_values' = r.combo_values
               /\ location_var' = r.location_var
               /\ add_windows' = r.add_windows
               /\ last' = Event("save_new_location", r.result)
    /\ UNCHANGED <<pc, d1, d2, highlight_snow_enabled, highlight_rain_enabled,
                   highlight_snow_over_cm, highlight_rain_over_mm, output, config_windows>>

(***************************************************************************)
(* open_config (lines 282-334)                                             *)
(***************************************************************************)
OpenConfig ==
    /\ pc = "mainloop" /\ config_windows < MaxWindows
    /\ config_windows' = config_windows + 1
    /\ last' = Event("other", Returned)
    /\ UNCHANGED <<LOCATIONS_FILE, pc, d1, d2, locations, highlight_snow_enabled,
                   highlight_rain_enabled, highlight_snow_over_cm, highlight_rain_over_mm,
                   location_var, combo_values, output, add_windows>>

\* lines 292-296: the checkbutton writes its variable when clicked
ToggleSnow ==
    /\ pc = "mainloop" /\ config_windows > 0
    /\ highlight_snow_enabled' = ~highlight_snow_enabled
    /\ last' = Event("other", Returned)
    /\ UNCHANGED <<LOCATIONS_FILE, pc, d1, d2, locations, highlight_rain_enabled,
                   highlight_snow_over_cm, highlight_rain_over_mm,
                   location_var, combo_values, output, add_windows, config_windows>>

\* lines 307-311
ToggleRain ==
    /\ pc = "mainloop" /\ config_windows > 0
    /\ highlight_rain_enabled' = ~highlight_rain_enabled
    /\ last' = Event("other", Returned)
    /\ UNCHANGED <<LOCATIONS_FILE, pc, d1, d2, locations, highlight_snow_enabled,
                   highlight_snow_over_cm, highlight_rain_over_mm,
                   location_var, combo_values, output, add_windows, config_windows>>

\* line 299: the entry writes its textvariable as the user types
EditSnowThreshold ==
    /\ pc = "mainloop" /\ config_windows > 0
    /\ \E text \in ThresholdTexts : highlight_snow_over_cm' = text
    /\ last' = Event("other", Returned)
    /\ UNCHANGED <<LOCATIONS_FILE, pc, d1, d2, locations, highlight_snow_enabled,
                   highlight_rain_enabled, highlight_rain_over_mm,
                   location_var, combo_values, output, add_windows, config_windows>>

\* line 314
EditRainThreshold ==
    /\ pc = "mainloop" /\ config_windows > 0
    /\ \E text \in ThresholdTexts : highlight_rain_over_mm' = text
    /\ last' = Event("other", Returned)
    /\ UNCHANGED <<LOCATIONS_FILE, pc, d1, d2, locations, highlight_snow_enabled,
                   highlight_rain_enabled, highlight_snow_over_cm,
                   location_var, combo_values, output, add_windows, config_windows>>

\* apply_and_close (lines 322-331): the OK button
apply_and_close ==
    IF ~IsNumber(highlight_snow_over_cm) \/ ~IsNumber(highlight_rain_over_mm)
    THEN [file |-> LOCATIONS_FILE, config_windows |-> config_windows,
          result |-> ShowError("Threshold values must be numbers.")]
    ELSE [file |-> persist_state(locations).file,
          config_windows |-> config_windows - 1, result |-> Returned]

ApplyAndClose ==
    /\ pc = "mainloop" /\ config_windows > 0
    /\ LET r == apply_and_close
       IN  /\ LOCATIONS_FILE' = r.file
           /\ config_windows' = r.config_windows
           /\ last' = Event("apply_and_close", r.result)
    /\ UNCHANGED <<pc, d1, d2, locations, highlight_snow_enabled, highlight_rain_enabled,
                   highlight_snow_over_cm, highlight_rain_over_mm,
                   location_var, combo_values, output, add_windows>>

\* line 334: the Cancel button is win.destroy (as is the window's close button)
CancelConfig ==
    /\ pc = "mainloop" /\ config_windows > 0
    /\ config_windows' = config_windows - 1
    /\ last' = Event("other", Returned)
    /\ UNCHANGED <<LOCATIONS_FILE, pc, d1, d2, locations, highlight_snow_enabled,
                   highlight_rain_enabled, highlight_snow_over_cm, highlight_rain_over_mm,
                   location_var, combo_values, output, add_windows>>

Next ==
    \/ Startup \/ SelectLocation \/ ShowForecast
    \/ AddLocationWindow \/ SaveNewLocation \/ CloseAddWindow
    \/ OpenConfig \/ ToggleSnow \/ ToggleRain
    \/ EditSnowThreshold \/ EditRainThreshold \/ ApplyAndClose \/ CancelConfig

Spec == Init /\ [][Next]_vars

(***************************************************************************)
(* Claims about the application (checked under Spec)                       *)
(***************************************************************************)
\* the segments of row i in a fully rendered text area
RainSegment(out, i) == out[2 + 5 * (i - 1) + 2]
SnowSegment(out, i) == out[2 + 5 * (i - 1) + 4]

\* C4: in show_forecast, whenever the thresholds it reads are numbers (a
\* disabled highlight's threshold is not read), each row's rain text carries the rain tag iff rain highlighting is enabled and rain_mm is strictly
\* over the rain threshold, and its snow text the snow tag iff snow
\* highlighting is enabled and snow_cm is strictly over the snow threshold;
\* neither decision reads the other's value or settings.
C4_HighlightDecision ==
    (pc = "mainloop" /\ ~RainRaises /\ ~SnowRaises)
    => \A fetch \in Fetches :
           fetch.raised = "" =>
               LET out == show_forecast(fetch).output
               IN  /\ Len(out) = 2 + 5 * Len(fetch.df)
                   /\ \A i \in 1..Len(fetch.df) :
                          /\ RainSegment(out, i).part = "rain"
                          /\ RainSegment(out, i).tag \in {"", "rain_highlight"}
                          /\ RainSegment(out, i).tag = "rain_highlight"
                                 <=> /\ highlight_rain_enabled
                                     /\ fetch.df[i].rain_mm > NumericText[highlight_rain_over_mm]
                          /\ SnowSegment(out, i).part = "snow"
                          /\ SnowSegment(out, i).tag \in {"", "snow_highlight"}
                          /\ SnowSegment(out, i).tag = "snow_highlight"
                                 <=> /\ highlight_snow_enabled
                                     /\ fetch.df[i].snow_cm > NumericText[highlight_snow_over_cm]

\* C4 witness: a forecast was rendered with both highlights enabled and both
\* thresholds 1.0: the rain text is tagged and the snow text is not (the row
\* with rain 1.01 and snow 1.00).
C4_Witness ==
    /\ pc = "mainloop" /\ last = Event("show_forecast", Returned)
    /\ highlight_rain_enabled /\ highlight_snow_enabled
    /\ highlight_rain_over_mm = "1.0" /\ highlight_snow_over_cm = "1.0"
    /\ Len(output) = 2 + 5 * NumDays
    /\ RainSegment(output, 1).tag = "rain_highlight"
    /\ SnowSegment(output, 1).tag = ""
    /\ RainSegment(output, 1).val = SnowSegment(output, 1).val

\* the file holds exactly the in-memory locations and settings
FileMatches(f, locs, snow_enabled, snow_over, rain_enabled, rain_over) ==
    /\ f.kind = "json" /\ f.val.t = "object"
    /\ HasKey(f.val, "locations") /\ json_load(Get(f.val, "locations")) = locs
    /\ HasKey(f.val, "settings") /\ Get(f.val, "settings").t = "object"
    /\ LET st == Get(f.val, "settings")
       IN  /\ \A k \in SettingsKeys : HasKey(st, k)
           /\ Get(st, "highlight_snow_enabled") = JLiteral(snow_enabled)
           /\ Get(st, "highlight_rain_enabled") = JLiteral(rain_enabled)
           /\ IsNumber(snow_over) /\ IsNumber(rain_over)
           /\ Get(st, "highlight_snow_over_cm").v = NumericText[snow_over]
           /\ Get(st, "highlight_rain_over_mm").v = NumericText[rain_over]

\* C5: whenever a callback changed the in-memory locations or settings, the file
\* holds the in-memory locations and settings when it has returned.
C5_SavedAfterEachMutation ==
    [][(/\ pc = "mainloop"
        /\ <<locations, highlight_snow_enabled, highlight_snow_over_cm,
             highlight_rain_enabled, highlight_rain_over_mm>>
           # <<locations', highlight_snow_enabled', highlight_snow_over_cm',
               highlight_rain_enabled', highlight_rain_over_mm'>>)
         => FileMatches(LOCATIONS_FILE', locations', highlight_snow_enabled',
                        highlight_snow_over_cm', highlight_rain_enabled',
                        highlight_rain_over_mm')]_vars

\* C6: an add-location form submitted with a latitude or longitude that is no
\* number, or with a name that is empty after trimming, and a configuration form
\* applied with a threshold that is no number, show an error, stay open, write
\* no file and leave the locations as they were.
C6_InvalidInputRejected ==
    [][pc = "mainloop"
         => /\ \A n \in NameTexts, la \in LatTexts, lo \in LonTexts :
                   (~IsNumber(la) \/ ~IsNumber(lo) \/ Strip[n] = "")
                   => LET r == save_new_location(n, la, lo)
                      IN  /\ r.result.kind = "showerror"
                          /\ r.add_windows = add_windows
                          /\ r.file = LOCATIONS_FILE
                          /\ r.locations = locations
            /\ (~IsNumber(highlight_snow_over_cm) \/ ~IsNumber(highlight_rain_over_mm))
                   => /\ apply_and_close.result.kind = "showerror"
                      /\ apply_and_close.config_windows = config_windows
                      /\ apply_and_close.file = LOCATIONS_FILE
            /\ (last'.op \in {"save_new_location", "apply_and_close"}
                /\ last'.result.kind = "showerror")
                   => /\ LOCATIONS_FILE' = LOCATIONS_FILE
                      /\ locations' = locations
                      /\ last'.op = "save_new_location"
                             => add_windows' = add_windows /\ add_windows > 0
                      /\ last'.op = "apply_and_close"
                             => config_windows' = config_windows /\ config_windows > 0]_vars

\* C6 witness: OK was pressed in the configuration form with a threshold that
\* is no number: the error is shown and the form is still open.
C6_Witness ==
    /\ pc = "mainloop"
    /\ last = Event("apply_and_close", ShowError("Threshold values must be numbers."))
    /\ ~IsNumber(highlight_rain_over_mm)
    /\ config_windows > 0

\* C8: when get_daily_forecast raises in show_forecast, the error dialog carries
\* the exception's message, and the text area, the locations, the settings, the
\* selection, the picker and the file are as before.
C8_FetchFailureLeavesState ==
    [][pc = "mainloop"
         => /\ \A fetch \in Fetches :
                   fetch.raised # ""
                   => /\ show_forecast(fetch).result = ShowError(fetch.raised)
                      /\ show_forecast(fetch).output = output
            /\ (last'.op = "show_forecast" /\ last'.result.kind = "showerror")
                   => UNCHANGED <<output, locations, highlight_snow_enabled,
                                  highlight_snow_over_cm, highlight_rain_enabled,
                                  highlight_rain_over_mm, location_var, combo_values,
                                  LOCATIONS_FILE>>]_vars

\* C8 witness: a fetch failed while an earlier forecast was displayed, which is
\* still there.
C8_Witness ==
    /\ pc = "mainloop"
    /\ last = Event("show_forecast", ShowError("HTTP 500"))
    /\ Len(output) = 2 + 5 * NumDays

Names(items) == { items[i].k : i \in 1..Len(items) }
FileLocationNames(f) ==
    IF IsCurrentShape(f) /\ Get(f.val, "locations").t = "object"
    THEN Names(Get(f.val, "locations").v) ELSE {}

\* C9: no step removes a location name from the in-memory mapping or from the
\* file; an add-location that succeeds with a new name appends exactly that
\* entry and leaves the others as they were, and one with an existing name
\* replaces that entry's lat/lon and keeps the number of locations.
C9_LocationsOnlyGrow ==
    [][pc = "mainloop"
         => /\ Names(locations.v) \subseteq Names(locations'.v)
            /\ FileLocationNames(LOCATIONS_FILE) \subseteq FileLocationNames(LOCATIONS_FILE')
            /\ \A n \in NameTexts, la \in LatTexts, lo \in LonTexts :
                   LET r == save_new_location(n, la, lo)
                       entry == Item(Strip[n], Coord(NumericText[la], NumericText[lo]))
                   IN  r.result = Returned
                       => IF Strip[n] \in Names(locations.v)
                          THEN /\ Len(r.locations.v) = Len(locations.v)
                               /\ \A i \in 1..Len(locations.v) :
                                      r.locations.v[i] =
                                          IF locations.v[i].k = Strip[n] THEN entry
                                          ELSE locations.v[i]
                          ELSE r.locations.v = Append(locations.v, entry)
            /\ (last'.op = "save_new_location" /\ last'.result = Returned)
                   => /\ \E n \in NameTexts, la \in LatTexts, lo \in LonTexts :
                             /\ save_new_location(n, la, lo).result = Returned
                             /\ locations' = save_new_location(n, la, lo).locations
                      /\ FileLocationNames(LOCATIONS_FILE') = Names(locations'.v)]_vars

\* C9 witness: "Aspen Mountain" was added again: it has the new coordinates and
\* is still the only location.
C9_Witness ==
    /\ pc = "mainloop" /\ last = Event("save_new_location", Returned)
    /\ Len(locations.v) = 1
    /\ Get(locations, "Aspen Mountain") = Coord(4000, -10550)
    /\ FileLocationNames(LOCATIONS_FILE) = {"Aspen Mountain"}

\* C10: while the application runs, the selected location is a key of the
\* locations mapping and the picker lists exactly the location names.
C10_SelectionValid ==
    pc = "mainloop"
    => /\ HasKey(locations, location_var)
       /\ combo_values = Keys(locations)

====
